---------------------------- MODULE Spec2Model ----------------------------
(***************************************************************************)
(* Contest state machine of outfit-vote (src/app.py): one contest row,     *)
(* the outfits (entries) and votes tables, and the request handlers of the *)
(* Flask application.  Every handler is cut at its database statements:    *)
(* one action is one statement (or one statement together with the commit  *)
(* that follows it without any other statement in between), so that        *)
(* requests interleave the way concurrent connections to Postgres do under *)
(* READ COMMITTED.                                                         *)
(*                                                                         *)
(* Time is counted in calendar days (the unit of VOTING_PERIOD_DAYS and of *)
(* TODAY_SQL).  now() of Postgres is the start time of the transaction,    *)
(* kept per request in txnow; datetime.utcnow() is the clock at the step.  *)
(*                                                                         *)
(* Line 385 of src/app.py reads `contest["max_entries"]]` (an unmatched    *)
(* bracket); the model reads it as `contest["max_entries"]`.               *)
(***************************************************************************)
EXTENDS Integers, FiniteSets, Sequences, TLC

\* ------------------------------------------------------------------ bounds
NVoters == 2
NReq == 2
MaxOutfitId == 2
MaxClock == 1
MaxEntriesCfg == 1
MaxVotesCfg == 1
\* VOTING_PERIOD_DAYS is read from the environment (default 5); the model
\* runs a shorter period so that the end of voting is reached.
VOTING_PERIOD_DAYS == 1
\* entries of the contests whose ranking is computed
MaxRanked == 3
\* largest max_entries of the contests that are reset and submitted to
MaxEntriesRoundTrip == 2
\* votes per voter and day of the contest whose voters reach the limit; it
\* has one entry more
ScenarioVotes == 2

Voters == 1..NVoters
Req == 1..NReq
\* entry ids a request may name: every id the sequence can hand out
OutfitIds == 1..MaxOutfitId

\* SQL null of the nullable timestamp columns
NULL == 0 - 1

\* the value of ?key= that equals ADMIN_KEY, one that does not, and none;
\* the clients that know the key
ADMIN_KEY == "changeme"
Keys == {"changeme", "wrong", "none"}
Admins == {1}
KeysOf(v) == IF v \in Admins THEN Keys ELSE Keys \ {ADMIN_KEY}

VARIABLES
  clock,             \* current day
  VOTES_PER_DAY,     \* configuration read at start-up
  status,            \* contests.status
  voting_opened_at,  \* contests.voting_opened_at
  voting_ends_at,    \* contests.voting_ends_at
  max_entries,       \* contests.max_entries
  votes_per_user,    \* contests.votes_per_user
  outfits,           \* rows of outfits: [id, creator_id, created_at]
  votes,             \* rows of votes: [outfit_id, voter_id, created_at]
  outfits_id_seq,    \* next value of the bigserial of outfits.id
  is_admin,          \* session["is_admin"] of each client
  req                \* the requests: position, handler, inputs, locals, outcome

\* req[r].pc       position of the request ("done": it has returned)
\* req[r].op       handler it runs
\* req[r].who      client that sent it: its voter_id cookie and its session
\* req[r].key      ?key= of the request (index)
\* req[r].oid      <int:oid> of the route (0: none)
\* req[r].txnow    now() of its open transaction
\* req[r].contest  its local `contest`
\* req[r].row      its local `row` of phase_auto_close_if_needed
\* req[r].count    its local entry count
\* req[r].del      outfit ids deleted by its open transaction
\* req[r].ranking  its local `ranking` (results)
\* req[r].top3     its local `top3` (results)
\* req[r].at       statement it returned from
\* req[r].resp     its outcome

dbvars == <<status, voting_opened_at, voting_ends_at, max_entries,
            votes_per_user, outfits, votes, outfits_id_seq>>
contestvars == <<status, voting_opened_at, voting_ends_at, max_entries,
                 votes_per_user>>
vars == <<clock, VOTES_PER_DAY, status, voting_opened_at, voting_ends_at,
          max_entries, votes_per_user, outfits, votes, outfits_id_seq,
          is_admin, req>>

\* ---------------------------------------------------------------- helpers
NoContest == [status |-> "none", max_entries |-> 0, votes_per_user |-> 0]
NoRow == [status |-> "none", voting_ends_at |-> NULL]

\* select * from contests where id=1
ContestRow ==
  [status |-> status, max_entries |-> max_entries,
   votes_per_user |-> votes_per_user]

\* outfit ids deleted by a transaction that has not committed yet: the rows
\* are locked, other writers of them wait for the commit
Locked == UNION {req[q].del : q \in Req}

\* unique index uniq_vote_per_outfit_per_voter: a row for (outfit, voter)
\* exists already
uniq_vote_per_outfit_per_voter_NoIndex(o, v) == FALSE
uniq_vote_per_outfit_per_voter(o, v) ==
  \E x \in votes : x.outfit_id = o /\ x.voter_id = v

\* unique index uniq_submission_per_creator: a row for the creator exists
uniq_submission_per_creator_NoIndex(v) == FALSE
uniq_submission_per_creator(v) == \E o \in outfits : o.creator_id = v

\* vote: row["creator_id"] == voter_id for the outfit row of id o
OwnOutfit_NoCheck(o, v) == FALSE
OwnOutfit(o, v) == \E x \in outfits : x.id = o /\ x.creator_id = v

\* results: contest["status"] != "closed"
ResultsNotAvailable_OnlySubmission(st) == st = "submission"
ResultsNotAvailable(st) == st # "closed"

\* TODAY_SQL: created_at and now() fall on the same calendar day
TODAY_SQL(created_at, now) == created_at = now

\* select count(*) from votes where voter_id=.. and TODAY_SQL
UsedToday(v, now) ==
  Cardinality({x \in votes : x.voter_id = v /\ TODAY_SQL(x.created_at, now)})

\* a slot without a request
Idle ==
  [pc |-> "done", op |-> "none", who |-> 0, key |-> "none", oid |-> 0,
   txnow |-> 0,
   contest |-> NoContest, row |-> NoRow, count |-> 0, del |-> {},
   ranking |-> <<>>, top3 |-> <<>>, at |-> "none", resp |-> "none"]

\* a request that arrives and stands before statement label
New(handler, label) == [Idle EXCEPT !.op = handler, !.pc = label]

\* a request that has returned: resp is the response it has just sent, at the
\* statement it returned from; its locals are dropped
Done(rec, code) ==
  [Idle EXCEPT !.op = rec.op, !.who = rec.who, !.oid = rec.oid,
               !.txnow = rec.txnow, !.at = rec.pc, !.resp = code]

\* a response is on the wire for one step: the next step of any request
\* (or of the clock) finds it delivered
Delivered(rec) == IF rec.pc = "done" THEN Idle ELSE rec

\* request r takes a step to rec
Set(r, rec) == req' = [q \in Req |-> IF q = r THEN rec ELSE Delivered(req[q])]
Return(r, code) == Set(r, Done(req[r], code))
Goto(r, label) == Set(r, [req[r] EXCEPT !.pc = label])

\* a request that has just returned, and what it returned
Returned(r, handler, code) ==
  req[r].pc = "done" /\ req[r].op = handler /\ req[r].resp = code

\* ------------------------------------------------------------------- Init
\* init_db: the contest row with its column defaults; max_entries and
\* VOTES_PER_DAY are configuration
Init ==
  /\ clock = 0
  /\ VOTES_PER_DAY \in 1..MaxVotesCfg
  /\ status = "submission"
  /\ voting_opened_at = NULL
  /\ voting_ends_at = NULL
  /\ max_entries \in 1..MaxEntriesCfg
  /\ votes_per_user = VOTES_PER_DAY
  /\ outfits = {}
  /\ votes = {}
  /\ outfits_id_seq = 1
  /\ is_admin = [v \in Voters |-> FALSE]
  /\ req = [r \in Req |-> Idle]

\* the clock advances by one day
Tick ==
  /\ clock < MaxClock
  /\ clock' = clock + 1
  /\ req' = [q \in Req |-> Delivered(req[q])]
  /\ UNCHANGED <<VOTES_PER_DAY, dbvars, is_admin>>

\* ------------------------------------------------------------------ index
\* phase_auto_close_if_needed, the select
IndexAutoCloseRead(r) ==
  /\ req[r].pc = "done"
  /\ Set(r, [New("index", "i_close") EXCEPT !.row =
               [status |-> status, voting_ends_at |-> voting_ends_at]])
  /\ UNCHANGED <<clock, VOTES_PER_DAY, dbvars, is_admin>>

\* update contests set status='closed' where id=1 and status='voting'
AutoCloseUpdate ==
  /\ status' = IF status = "voting" THEN "closed" ELSE status
  /\ UNCHANGED <<voting_opened_at, voting_ends_at, max_entries,
                 votes_per_user, outfits, votes, outfits_id_seq>>

\* phase_auto_close_if_needed, the comparison with utcnow and the update
IndexAutoCloseUpdate(r) ==
  /\ req[r].pc = "i_close"
  /\ IF /\ req[r].row.status = "voting"
        /\ req[r].row.voting_ends_at # NULL
        /\ req[r].row.voting_ends_at <= clock
       THEN AutoCloseUpdate
       ELSE UNCHANGED dbvars
  /\ Set(r, [req[r] EXCEPT !.pc = "i_contest", !.row = NoRow])
  /\ UNCHANGED <<clock, VOTES_PER_DAY, is_admin>>

\* index: select * from contests
IndexReadContest(r) ==
  /\ req[r].pc = "i_contest"
  /\ Set(r, [req[r] EXCEPT !.pc = "i_outfits", !.contest = ContestRow])
  /\ UNCHANGED <<clock, VOTES_PER_DAY, dbvars, is_admin>>

\* index: select the outfits, the remaining reads, the ?key= login of the
\* client v and the rendered page, which shows contest and entries_count
IndexReadOutfits(r, v, key) ==
  /\ req[r].pc = "i_outfits"
  /\ key \in KeysOf(v)
  /\ is_admin' = IF key = ADMIN_KEY
                   THEN [is_admin EXCEPT ![v] = TRUE]
                   ELSE is_admin
  /\ Set(r, [Done(req[r], "Index") EXCEPT
               !.who = v, !.key = key,
               !.contest = req[r].contest, !.count = Cardinality(outfits)])
  /\ UNCHANGED <<clock, VOTES_PER_DAY, dbvars>>

Index(r) ==
  \/ IndexAutoCloseRead(r)
  \/ IndexAutoCloseUpdate(r)
  \/ IndexReadContest(r)
  \/ \E v \in Voters, key \in Keys : IndexReadOutfits(r, v, key)

\* ----------------------------------------------------------------- submit
\* what the request carries as image: an allowed file that is stored, an
\* allowed file name that is no image, a file whose upload raises, an
\* external URL, or nothing usable
Images == {"file_ok", "file_not_image", "file_upload_fails", "url", "missing"}

\* submits that will draw a value of the id sequence
SubmitsInFlight ==
  {q \in Req : req[q].op = "submit"
                 /\ req[q].pc \in {"s_count", "s_dup", "s_insert"}}

\* submit: select * from contests, the phase check
SubmitReadContest(r) ==
  /\ req[r].pc = "done"
  /\ outfits_id_seq + Cardinality(SubmitsInFlight) <= MaxOutfitId
  /\ IF status # "submission"
       THEN Set(r, Done(New("submit", "begin"), "WrongPhase"))
       ELSE Set(r, [New("submit", "s_count") EXCEPT
                      !.txnow = clock, !.contest = ContestRow])
  /\ UNCHANGED <<clock, VOTES_PER_DAY, dbvars, is_admin>>

\* submit: the capacity check
SubmitCount(r) ==
  /\ req[r].pc = "s_count"
  /\ IF Cardinality(outfits) >= req[r].contest.max_entries
       THEN Return(r, "CapacityReached")
       ELSE Goto(r, "s_dup")
  /\ UNCHANGED <<clock, VOTES_PER_DAY, dbvars, is_admin>>

\* the same step looking at the image before the one-entry-per-voter check
SubmitDupImage_ImageFirst(r, v, image) ==
  /\ req[r].pc = "s_dup"
  /\ IF image = "file_not_image" \/ image = "missing"
       THEN Set(r, Done([req[r] EXCEPT !.who = v], "InvalidImage"))
       ELSE IF image = "file_upload_fails"
         THEN Set(r, Done([req[r] EXCEPT !.who = v], "UploadFailed"))
         ELSE IF \E o \in outfits : o.creator_id = v
           THEN Set(r, Done([req[r] EXCEPT !.who = v], "DuplicateSubmission"))
           ELSE Set(r, [req[r] EXCEPT !.pc = "s_insert", !.who = v])
  /\ UNCHANGED <<clock, VOTES_PER_DAY, dbvars, is_admin>>

\* submit: the one-entry-per-voter check for the cookie v of the request,
\* then the image is stored
SubmitDupImage(r, v, image) ==
  /\ req[r].pc = "s_dup"
  /\ IF \E o \in outfits : o.creator_id = v
       THEN Set(r, Done([req[r] EXCEPT !.who = v], "DuplicateSubmission"))
       ELSE IF image = "file_not_image" \/ image = "missing"
         THEN Set(r, Done([req[r] EXCEPT !.who = v], "InvalidImage"))
         ELSE IF image = "file_upload_fails"
           THEN Set(r, Done([req[r] EXCEPT !.who = v], "UploadFailed"))
           ELSE Set(r, [req[r] EXCEPT !.pc = "s_insert", !.who = v])
  /\ UNCHANGED <<clock, VOTES_PER_DAY, dbvars, is_admin>>

\* submit: insert into outfits (created_at defaults to now()) and commit;
\* uniq_submission_per_creator raises UniqueViolation, which the handler
\* catches
SubmitInsert(r) ==
  /\ req[r].pc = "s_insert"
  /\ \A o \in outfits : o.creator_id = req[r].who => o.id \notin Locked
  /\ outfits_id_seq' = outfits_id_seq + 1
  /\ IF uniq_submission_per_creator(req[r].who)
       THEN /\ Return(r, "DuplicateSubmission")
            /\ UNCHANGED outfits
       ELSE /\ outfits' = outfits \cup
                  {[id |-> outfits_id_seq, creator_id |-> req[r].who,
                    created_at |-> req[r].txnow]}
            /\ Goto(r, "s_recount")
  /\ UNCHANGED <<clock, VOTES_PER_DAY, contestvars, votes, is_admin>>

\* the same comparison counting the entry once more
SubmitRecount_OffByOne(r) ==
  /\ req[r].pc = "s_recount"
  /\ IF Cardinality(outfits) + 1 >= req[r].contest.max_entries
       THEN Goto(r, "s_start")
       ELSE Return(r, "Submitted")
  /\ UNCHANGED <<clock, VOTES_PER_DAY, dbvars, is_admin>>

\* submit: select count(*) after the insert
SubmitRecount(r) ==
  /\ req[r].pc = "s_recount"
  /\ IF Cardinality(outfits) >= req[r].contest.max_entries
       THEN Goto(r, "s_start")
       ELSE Return(r, "Submitted")
  /\ UNCHANGED <<clock, VOTES_PER_DAY, dbvars, is_admin>>

\* the same update without `and status='submission'`
StartVotingUpdate_Unconditional(opened) ==
  /\ status' = "voting"
  /\ voting_opened_at' = opened
  /\ voting_ends_at' = opened + VOTING_PERIOD_DAYS
  /\ UNCHANGED <<max_entries, votes_per_user, outfits, votes, outfits_id_seq>>

\* the same update without voting_ends_at
StartVotingUpdate_NoEnd(opened) ==
  /\ IF status = "submission"
       THEN /\ status' = "voting"
            /\ voting_opened_at' = opened
            /\ UNCHANGED voting_ends_at
       ELSE UNCHANGED <<status, voting_opened_at, voting_ends_at>>
  /\ UNCHANGED <<max_entries, votes_per_user, outfits, votes, outfits_id_seq>>

\* update contests set status='voting', voting_opened_at, voting_ends_at
\*  where id=1 and status='submission'
StartVotingUpdate(opened) ==
  /\ IF status = "submission"
       THEN /\ status' = "voting"
            /\ voting_opened_at' = opened
            /\ voting_ends_at' = opened + VOTING_PERIOD_DAYS
       ELSE UNCHANGED <<status, voting_opened_at, voting_ends_at>>
  /\ UNCHANGED <<max_entries, votes_per_user, outfits, votes, outfits_id_seq>>

\* submit: voting starts when the capacity is reached
SubmitAutoStart(r) ==
  /\ req[r].pc = "s_start"
  /\ StartVotingUpdate(clock)
  /\ Return(r, "Submitted")
  /\ UNCHANGED <<clock, VOTES_PER_DAY, is_admin>>

Submit(r) ==
  \/ SubmitReadContest(r)
  \/ SubmitCount(r)
  \/ \E v \in Voters, image \in Images : SubmitDupImage(r, v, image)
  \/ SubmitInsert(r)
  \/ SubmitRecount(r)
  \/ SubmitAutoStart(r)

\* ------------------------------------------------------------------- vote
\* vote: select * from contests, the phase check, of a request whose route
\* names the entry oid (0: the route is looked at when the handler reads it)
VoteReadContestFor(r, oid) ==
  /\ req[r].pc = "done"
  /\ IF status # "voting"
       THEN Set(r, Done([New("vote", "begin") EXCEPT !.oid = oid],
                        "WrongPhase"))
       ELSE Set(r, [New("vote", "v_count") EXCEPT
                      !.oid = oid, !.txnow = clock, !.contest = ContestRow])
  /\ UNCHANGED <<clock, VOTES_PER_DAY, dbvars, is_admin>>

VoteReadContest(r) == VoteReadContestFor(r, 0)

\* the same check letting the voter pass with votes_per_user votes used
VoteCount_OffByOne(r, v) ==
  /\ req[r].pc = "v_count"
  /\ IF UsedToday(v, req[r].txnow) > req[r].contest.votes_per_user
       THEN Set(r, Done([req[r] EXCEPT !.who = v], "VoteLimitReached"))
       ELSE Set(r, [req[r] EXCEPT !.pc = "v_outfit", !.who = v])
  /\ UNCHANGED <<clock, VOTES_PER_DAY, dbvars, is_admin>>

\* vote: the votes the voter (cookie v of the request) used today
VoteCount(r, v) ==
  /\ req[r].pc = "v_count"
  /\ IF UsedToday(v, req[r].txnow) >= req[r].contest.votes_per_user
       THEN Set(r, Done([req[r] EXCEPT !.who = v], "VoteLimitReached"))
       ELSE Set(r, [req[r] EXCEPT !.pc = "v_outfit", !.who = v])
  /\ UNCHANGED <<clock, VOTES_PER_DAY, dbvars, is_admin>>

\* vote: the entry (oid of the route) exists and is not the voter's own
VoteReadOutfit(r, oid) ==
  /\ req[r].pc = "v_outfit"
  /\ req[r].oid \in {0, oid}
  /\ IF ~ \E o \in outfits : o.id = oid
       THEN Set(r, Done([req[r] EXCEPT !.oid = oid], "EntryNotFound"))
       ELSE IF OwnOutfit(oid, req[r].who)
         THEN Set(r, Done([req[r] EXCEPT !.oid = oid], "SelfVoteForbidden"))
         ELSE Set(r, [req[r] EXCEPT !.pc = "v_insert", !.oid = oid])
  /\ UNCHANGED <<clock, VOTES_PER_DAY, dbvars, is_admin>>

\* vote: insert into votes and commit.  uniq_vote_per_outfit_per_voter
\* raises UniqueViolation, which the handler catches; the foreign key on
\* outfit_id raises ForeignKeyViolation, which it does not
VoteInsert(r) ==
  /\ req[r].pc = "v_insert"
  /\ req[r].oid \notin Locked
  /\ IF ~ \E o \in outfits : o.id = req[r].oid
       THEN /\ Return(r, "StorageError")
            /\ UNCHANGED votes
       ELSE IF uniq_vote_per_outfit_per_voter(req[r].oid, req[r].who)
         THEN /\ Return(r, "DuplicateVote")
              /\ UNCHANGED votes
         ELSE /\ votes' = votes \cup
                    {[outfit_id |-> req[r].oid, voter_id |-> req[r].who,
                      created_at |-> req[r].txnow]}
              /\ Return(r, "Voted")
  /\ UNCHANGED <<clock, VOTES_PER_DAY, contestvars, outfits, outfits_id_seq,
                 is_admin>>

Vote(r) ==
  \/ VoteReadContest(r)
  \/ \E v \in Voters : VoteCount(r, v)
  \/ \E oid \in OutfitIds : VoteReadOutfit(r, oid)
  \/ VoteInsert(r)

\* ---------------------------------------------------------------- results
\* results: select * from contests, the phase check
ResultsReadContest(r) ==
  /\ req[r].pc = "done"
  /\ IF ResultsNotAvailable(status)
       THEN Set(r, Done(New("results", "begin"), "ResultsNotAvailable"))
       ELSE Set(r, New("results", "r_ranking"))
  /\ UNCHANGED <<clock, VOTES_PER_DAY, dbvars, is_admin>>

\* results: coalesce(vc.votes, 0) of the entry o
VotesOf(o) == Cardinality({x \in votes : x.outfit_id = o.id})

\* results: a row of the ranking query
RankingRow(o) == [id |-> o.id, created_at |-> o.created_at, votes |-> VotesOf(o)]

\* results: order by votes desc, o.created_at asc; rows that agree on both
\* keys come in whatever order the database returns them
OrderBy(s) ==
  \A i, j \in 1..Len(s) :
    i < j => \/ s[i].votes > s[j].votes
             \/ s[i].votes = s[j].votes /\ s[i].created_at <= s[j].created_at

\* results: the sequences the ranking query may return
Rankings ==
  LET rows == {RankingRow(o) : o \in outfits}
      n == Cardinality(rows)
  IN {s \in [1..n -> rows] :
        /\ \A i, j \in 1..n : s[i] = s[j] => i = j
        /\ OrderBy(s)}

\* results: top3 = ranking[:3]
Top3(ranking) ==
  SubSeq(ranking, 1, IF Len(ranking) < 3 THEN Len(ranking) ELSE 3)

\* results: the ranking query and the rendered page
ResultsRanking(r) ==
  /\ req[r].pc = "r_ranking"
  /\ \E s \in Rankings :
       Set(r, [Done(req[r], "Ranking") EXCEPT !.ranking = s, !.top3 = Top3(s)])
  /\ UNCHANGED <<clock, VOTES_PER_DAY, dbvars, is_admin>>

Results(r) ==
  \/ ResultsReadContest(r)
  \/ ResultsRanking(r)

\* ------------------------------------------------------------------ admin
\* the same check letting every session pass
_require_admin_Always(v) == TRUE

\* _require_admin: the session of the request carries is_admin
_require_admin(v) == is_admin[v]

\* votes that remain after the outfits ids are deleted (on delete cascade)
Cascade(ids) == {x \in votes : x.outfit_id \notin ids}

\* admin_delete: select image_url of the entry
AdminDeleteRead(r, v, o) ==
  /\ req[r].pc = "done"
  /\ IF ~ _require_admin(v)
       THEN Set(r, Done([New("admin_delete", "begin") EXCEPT !.who = v],
                        "Unauthorized"))
       ELSE IF \E x \in outfits : x.id = o
         THEN Set(r, [New("admin_delete", "ad_delete") EXCEPT
                        !.who = v, !.oid = o])
         ELSE Set(r, Done([New("admin_delete", "begin") EXCEPT
                             !.who = v, !.oid = o], "EntryNotFound"))
  /\ UNCHANGED <<clock, VOTES_PER_DAY, dbvars, is_admin>>

\* the same step with a failed release of the image ending the handler
\* before its delete
AdminDeleteDelete_ReleaseBlocks(r, released) ==
  /\ req[r].pc = "ad_delete"
  /\ req[r].oid \notin Locked
  /\ outfits' = IF released THEN {x \in outfits : x.id # req[r].oid}
                            ELSE outfits
  /\ votes' = IF released THEN Cascade({req[r].oid}) ELSE votes
  /\ Return(r, "Deleted")
  /\ UNCHANGED <<clock, VOTES_PER_DAY, contestvars, outfits_id_seq, is_admin>>

\* admin_delete: the image is released (best effort), then
\* delete from outfits where id=oid, and commit
AdminDeleteDelete(r, released) ==
  /\ req[r].pc = "ad_delete"
  /\ req[r].oid \notin Locked
  /\ outfits' = {x \in outfits : x.id # req[r].oid}
  /\ votes' = Cascade({req[r].oid})
  /\ Return(r, "Deleted")
  /\ UNCHANGED <<clock, VOTES_PER_DAY, contestvars, outfits_id_seq, is_admin>>

\* admin_delete_all: select image_url of all entries
AdminDeleteAllRead(r, v) ==
  /\ req[r].pc = "done"
  /\ IF ~ _require_admin(v)
       THEN Set(r, Done([New("admin_delete_all", "begin") EXCEPT !.who = v],
                        "Unauthorized"))
       ELSE Set(r, [New("admin_delete_all", "aa_delete") EXCEPT !.who = v])
  /\ UNCHANGED <<clock, VOTES_PER_DAY, dbvars, is_admin>>

\* admin_delete_all: delete from outfits, and commit
AdminDeleteAllDelete(r) ==
  /\ req[r].pc = "aa_delete"
  /\ \A x \in outfits : x.id \notin Locked
  /\ outfits' = {}
  /\ votes' = Cascade({x.id : x \in outfits})
  /\ Return(r, "DeletedAll")
  /\ UNCHANGED <<clock, VOTES_PER_DAY, contestvars, outfits_id_seq, is_admin>>

\* admin_reset: delete from votes, delete from outfits; the rows stay
\* visible to other connections until the commit
AdminResetDelete(r, v) ==
  /\ req[r].pc = "done"
  /\ IF ~ _require_admin(v)
       THEN Set(r, Done([New("admin_reset", "begin") EXCEPT !.who = v],
                        "Unauthorized"))
       ELSE /\ \A x \in outfits : x.id \notin Locked
            /\ Set(r, [New("admin_reset", "ar_commit") EXCEPT
                         !.who = v, !.del = {x.id : x \in outfits}])
  /\ UNCHANGED <<clock, VOTES_PER_DAY, dbvars, is_admin>>

\* admin_reset: update contests, and commit
AdminResetCommit(r) ==
  /\ req[r].pc = "ar_commit"
  /\ outfits' = {x \in outfits : x.id \notin req[r].del}
  /\ votes' = Cascade(req[r].del)
  /\ status' = "submission"
  /\ voting_opened_at' = NULL
  /\ voting_ends_at' = NULL
  /\ votes_per_user' = VOTES_PER_DAY
  /\ Return(r, "Reset")
  /\ UNCHANGED <<clock, VOTES_PER_DAY, max_entries, outfits_id_seq, is_admin>>

\* admin_start_voting_5days: select status
AdminStartRead(r, v) ==
  /\ req[r].pc = "done"
  /\ IF ~ _require_admin(v)
       THEN Set(r, Done([New("admin_start_voting_5days", "begin") EXCEPT
                           !.who = v], "Unauthorized"))
       ELSE IF status # "submission"
         THEN Set(r, Done([New("admin_start_voting_5days", "begin") EXCEPT
                             !.who = v], "InvalidPhaseTransition"))
         ELSE Set(r, [New("admin_start_voting_5days", "as_update") EXCEPT
                        !.who = v])
  /\ UNCHANGED <<clock, VOTES_PER_DAY, dbvars, is_admin>>

\* admin_start_voting_5days: the conditional update, and commit
AdminStartUpdate(r) ==
  /\ req[r].pc = "as_update"
  /\ StartVotingUpdate(clock)
  /\ Return(r, "VotingStarted")
  /\ UNCHANGED <<clock, VOTES_PER_DAY, is_admin>>

\* admin_close: update contests set status='closed' where id=1
AdminClose(r, v) ==
  /\ req[r].pc = "done"
  /\ IF ~ _require_admin(v)
       THEN /\ Set(r, Done([New("admin_close", "begin") EXCEPT !.who = v],
                            "Unauthorized"))
            /\ UNCHANGED status
       ELSE /\ status' = "closed"
            /\ Set(r, Done([New("admin_close", "begin") EXCEPT !.who = v],
                            "Closed"))
  /\ UNCHANGED <<clock, VOTES_PER_DAY, voting_opened_at, voting_ends_at,
                 max_entries, votes_per_user, outfits, votes, outfits_id_seq,
                 is_admin>>

Admin(r) ==
  \/ \E v \in Voters, o \in OutfitIds : AdminDeleteRead(r, v, o)
  \/ \E released \in BOOLEAN : AdminDeleteDelete(r, released)
  \/ \E v \in Voters : AdminDeleteAllRead(r, v)
  \/ AdminDeleteAllDelete(r)
  \/ \E v \in Voters : AdminResetDelete(r, v)
  \/ AdminResetCommit(r)
  \/ \E v \in Voters : AdminStartRead(r, v)
  \/ AdminStartUpdate(r)
  \/ \E v \in Voters : AdminClose(r, v)

\* ------------------------------------------------------------------- Next
Next ==
  \/ Tick
  \/ \E r \in Req : Index(r)
  \/ \E r \in Req : Submit(r)
  \/ \E r \in Req : Vote(r)
  \/ \E r \in Req : Results(r)
  \/ \E r \in Req : Admin(r)

Spec == Init /\ [][Next]_vars

\* the contest after two earlier clients, who send no further request, have
\* submitted the entries 1 and 2 on day 0 with max_entries = 2: the second
\* submit has started the voting, and the id sequence is used up
InitVoting ==
  /\ clock = 0
  /\ VOTES_PER_DAY \in 1..MaxVotesCfg
  /\ status = "voting"
  /\ voting_opened_at = 0
  /\ voting_ends_at = VOTING_PERIOD_DAYS
  /\ max_entries = 2
  /\ votes_per_user = VOTES_PER_DAY
  /\ outfits = {[id |-> 1, creator_id |-> NVoters + 1, created_at |-> 0],
                [id |-> 2, creator_id |-> NVoters + 2, created_at |-> 0]}
  /\ votes = {}
  /\ outfits_id_seq = MaxOutfitId + 1
  /\ is_admin = [v \in Voters |-> FALSE]
  /\ req = [r \in Req |-> Idle]

\* no submit can draw an id any more
NextVoting ==
  \/ Tick
  \/ \E r \in Req : Index(r)
  \/ \E r \in Req : Vote(r)
  \/ \E r \in Req : Results(r)
  \/ \E r \in Req : Admin(r)

SpecVoting == InitVoting /\ [][NextVoting]_vars

\* a closed contest (force-closed on day MaxClock, the day its voting was
\* opened) with any of the entries 1..MaxRanked, submitted by earlier clients
\* on any day up to then, and any votes of the voters for them; only results
\* is requested
InitRanking ==
  /\ clock = MaxClock
  /\ VOTES_PER_DAY = MaxRanked
  /\ status = "closed"
  /\ voting_opened_at = MaxClock
  /\ voting_ends_at = MaxClock + VOTING_PERIOD_DAYS
  /\ max_entries = MaxRanked
  /\ votes_per_user = VOTES_PER_DAY
  /\ \E ids \in SUBSET (1..MaxRanked) :
       \E at \in [ids -> 0..MaxClock] :
         /\ outfits = {[id |-> i, creator_id |-> NVoters + i,
                         created_at |-> at[i]] : i \in ids}
         /\ \E pairs \in SUBSET (ids \X Voters) :
              votes = {[outfit_id |-> p[1], voter_id |-> p[2],
                        created_at |-> MaxClock] : p \in pairs}
  /\ outfits_id_seq = MaxRanked + 1
  /\ is_admin = [v \in Voters |-> FALSE]
  /\ req = [r \in Req |-> Idle]

NextRanking == \E r \in Req : Results(r)

SpecRanking == InitRanking /\ [][NextRanking]_vars

\* a contest in any status with max_entries up to MaxEntriesRoundTrip, at
\* most the entry 1 of an earlier client, any votes for it that the daily
\* limit allows, and client 1 logged in as admin
InitRoundTrip ==
  /\ clock \in 0..MaxClock
  /\ VOTES_PER_DAY \in 1..MaxVotesCfg
  /\ max_entries \in 1..MaxEntriesRoundTrip
  /\ votes_per_user = VOTES_PER_DAY
  /\ status \in {"submission", "voting", "closed"}
  /\ \/ /\ voting_opened_at = NULL
        /\ voting_ends_at = NULL
        /\ status # "voting"
     \/ /\ voting_opened_at = 0
        /\ voting_ends_at = VOTING_PERIOD_DAYS
        /\ status # "submission"
  /\ outfits \in SUBSET {[id |-> 1, creator_id |-> NVoters + 1,
                           created_at |-> 0]}
  /\ (status = "submission" /\ max_entries = 1) => outfits = {}
  /\ \E pairs \in SUBSET ({o.id : o \in outfits} \X Voters) :
       /\ votes = {[outfit_id |-> p[1], voter_id |-> p[2], created_at |-> 0] :
                     p \in pairs}
       /\ voting_opened_at = NULL => pairs = {}
  /\ outfits_id_seq = 2
  /\ is_admin = [v \in Voters |-> v \in Admins]
  /\ req = [r \in Req |-> Idle]

\* one client sends, each after the response to the one before: the reset,
\* a submit, and after a submit that succeeded the index page
NextRoundTrip ==
  \/ req[1] = Idle /\ AdminResetDelete(1, 1)
  \/ AdminResetCommit(1)
  \/ Returned(1, "admin_reset", "Reset") /\ SubmitReadContest(1)
  \/ SubmitCount(1)
  \/ \E v \in Voters, image \in Images : SubmitDupImage(1, v, image)
  \/ SubmitInsert(1)
  \/ SubmitRecount(1)
  \/ SubmitAutoStart(1)
  \/ Returned(1, "submit", "Submitted") /\ IndexAutoCloseRead(1)
  \/ IndexAutoCloseUpdate(1)
  \/ IndexReadContest(1)
  \/ \E v \in Voters, key \in Keys : IndexReadOutfits(1, v, key)

SpecRoundTrip == InitRoundTrip /\ [][NextRoundTrip]_vars

\* a contest in Voting on the day the voting opened, with votes_per_user =
\* ScenarioVotes and the entries 1..ScenarioVotes + 1 of earlier clients
ScenarioIds == 1..(ScenarioVotes + 1)

InitLimit ==
  /\ clock = 0
  /\ VOTES_PER_DAY = ScenarioVotes
  /\ status = "voting"
  /\ voting_opened_at = 0
  /\ voting_ends_at = VOTING_PERIOD_DAYS
  /\ max_entries = ScenarioVotes + 1
  /\ votes_per_user = VOTES_PER_DAY
  /\ outfits = {[id |-> i, creator_id |-> NVoters + i, created_at |-> 0] :
                  i \in ScenarioIds}
  /\ votes = {}
  /\ outfits_id_seq = ScenarioVotes + 2
  /\ is_admin = [v \in Voters |-> FALSE]
  /\ req = [r \in Req |-> Idle]

\* the voters vote, each request for the entry its route names
NextLimit ==
  \/ Tick
  \/ \E r \in Req, oid \in ScenarioIds : VoteReadContestFor(r, oid)
  \/ \E r \in Req, v \in Voters : VoteCount(r, v)
  \/ \E r \in Req, oid \in ScenarioIds : VoteReadOutfit(r, oid)
  \/ \E r \in Req : VoteInsert(r)

SpecLimit == InitLimit /\ [][NextLimit]_vars

\* a contest in Voting on the day the voting was opened by the submit of an
\* earlier client (max_entries = 1); the requests that arrive are submit,
\* vote and results, none of them index or an admin operation, and every
\* kind keeps arriving and being handled
InitArrivals ==
  /\ clock = 0
  /\ VOTES_PER_DAY \in 1..MaxVotesCfg
  /\ status = "voting"
  /\ voting_opened_at = 0
  /\ voting_ends_at = VOTING_PERIOD_DAYS
  /\ max_entries = 1
  /\ votes_per_user = VOTES_PER_DAY
  /\ outfits = {[id |-> 1, creator_id |-> NVoters + 1, created_at |-> 0]}
  /\ votes = {}
  /\ outfits_id_seq = 2
  /\ is_admin = [v \in Voters |-> FALSE]
  /\ req = [r \in Req |-> Idle]

NextArrivals ==
  \/ Tick
  \/ \E r \in Req : SubmitReadContest(r)
  \/ \E r \in Req : Vote(r)
  \/ \E r \in Req : ResultsReadContest(r)

SpecArrivals ==
  /\ InitArrivals
  /\ [][NextArrivals]_vars
  /\ WF_vars(\E r \in Req : SubmitReadContest(r))
  /\ WF_vars(\E r \in Req : Vote(r))
  /\ WF_vars(\E r \in Req : ResultsReadContest(r))

\* ----------------------------------------------------------------- claims
\* request r takes a step
Steps(r) == req'[r] # req[r]

\* C1: in every reachable state the number of Entries is at most
\* maxEntries, also when submits interleave statement by statement
C1_EntriesWithinCapacity == Cardinality(outfits) <= max_entries

\* C2: for every voter and every day the number of Votes of that voter
\* created on that day is at most votesPerVoter, also when vote requests of
\* one voter interleave between the count and the insert
C2_VotesWithinLimit ==
  \A v \in Voters : \A d \in 0..MaxClock :
    Cardinality({x \in votes : x.voter_id = v /\ x.created_at = d})
      <= votes_per_user

\* C3: every Vote stored was created strictly before the votingEndsAt of
\* its voting period: no vote request succeeds at a time >= votingEndsAt
C3_NoVotePastEnd ==
  \A x \in votes : voting_ends_at # NULL /\ x.created_at < voting_ends_at

\* C4: in every reachable state no two Votes have the same (entry, voter);
\* a vote request that stands at its insert while a Vote of its voter for
\* its entry exists (the loser of concurrent identical requests) inserts
\* nothing and ends with DuplicateVote, and a request that ends with Voted
\* has inserted the one Vote of its pair
C4_UniqueVote ==
  /\ [](\A x, y \in votes :
          (x.outfit_id = y.outfit_id /\ x.voter_id = y.voter_id) => x = y)
  /\ [][\A r \in Req :
          /\ ( /\ req[r].pc = "v_insert"
               /\ req'[r] # req[r]
               /\ \E x \in votes : x.outfit_id = req[r].oid
                                     /\ x.voter_id = req[r].who )
             => (votes' = votes /\ req'[r].resp = "DuplicateVote")
          /\ ( req[r].pc = "v_insert" /\ req'[r].resp = "Voted" )
             => ( /\ Cardinality(votes') = Cardinality(votes) + 1
                  /\ \E x \in votes' \ votes :
                        x.outfit_id = req[r].oid /\ x.voter_id = req[r].who )
     ]_vars

\* two identical vote requests passed their checks before either inserted:
\* the second one has just lost the insert and returned DuplicateVote
C4_Witness ==
  \E r \in Req :
    /\ Returned(r, "vote", "DuplicateVote")
    /\ req[r].at = "v_insert"
    /\ votes_per_user = 1
    /\ \E x \in votes : /\ x.outfit_id = req[r].oid
                        /\ x.voter_id = req[r].who
                        /\ x.created_at = req[r].txnow

\* C5: in every reachable state no Vote is by the creator of the Entry it
\* references; a vote request whose target is the requester's own entry ends
\* with SelfVoteForbidden and inserts nothing
C5_NoSelfVote ==
  /\ [](/\ \A x \in votes : \A o \in outfits :
             o.id = x.outfit_id => o.creator_id # x.voter_id
        /\ \A r \in Req :
             ( /\ req[r].pc = "done"
               /\ req[r].op = "vote"
               /\ \E o \in outfits : o.id = req[r].oid
                                       /\ o.creator_id = req[r].who )
             => req[r].resp = "SelfVoteForbidden")
  /\ [][\A r \in Req :
          (req[r].op = "vote" /\ req'[r].resp = "SelfVoteForbidden")
            => votes' = votes]_vars

\* the creator of an entry has just been refused a vote for it
C5_Witness ==
  \E r \in Req :
    /\ Returned(r, "vote", "SelfVoteForbidden")
    /\ \E o \in outfits : o.id = req[r].oid /\ o.creator_id = req[r].who

\* C6: in every reachable state each creator owns at most one Entry; a
\* submit that stands at its insert while an Entry of its voter exists (the
\* loser of two concurrent submits of one voter) inserts nothing and ends
\* with DuplicateSubmission, the handled outcome
C6_OneEntryPerCreator ==
  /\ [](\A x, y \in outfits : x.creator_id = y.creator_id => x = y)
  /\ [][\A r \in Req :
          ( /\ req[r].pc = "s_insert"
            /\ Steps(r)
            /\ \E o \in outfits : o.creator_id = req[r].who )
          => (outfits' = outfits /\ req'[r].resp = "DuplicateSubmission")
     ]_vars

\* a submit passed the one-entry-per-voter check and then lost the insert
\* to a concurrent submit of the same voter
C6_Witness ==
  \E r \in Req :
    /\ Returned(r, "submit", "DuplicateSubmission")
    /\ req[r].at = "s_insert"
    /\ \E o \in outfits : o.creator_id = req[r].who

\* C7, as claimed: the status changes only along Submission -> Voting,
\* Voting -> Closed and Closed -> Submission
C7_OnlyThreeTransitions ==
  [][status' # status =>
       \/ status = "submission" /\ status' = "voting"
       \/ status = "voting" /\ status' = "closed"
       \/ status = "closed" /\ status' = "submission"]_vars

\* C7, amended: the status changes only from Submission to Voting (by the
\* automatic start of a submit or the admin force-start), from Voting to
\* Closed (by the automatic close), from any status to Closed by the admin
\* force-close and from any status to Submission by the admin reset; never
\* from Closed to Voting; a force-start that finds the status not Submission
\* leaves the contest unchanged
C7_Transitions ==
  [][/\ status' # status =>
          \/ /\ status = "submission" /\ status' = "voting"
             /\ \E r \in Req : req[r].pc \in {"s_start", "as_update"}
                                 /\ Steps(r)
          \/ /\ status = "voting" /\ status' = "closed"
             /\ \E r \in Req : req[r].pc = "i_close" /\ Steps(r)
          \/ /\ status' = "closed"
             /\ \E r \in Req : req[r].pc = "done" /\ Steps(r)
                                 /\ req'[r].op = "admin_close"
                                 /\ req'[r].resp = "Closed"
          \/ /\ status' = "submission"
             /\ \E r \in Req : req[r].pc = "ar_commit" /\ Steps(r)
     /\ \A r \in Req :
          ( /\ Steps(r)
            /\ status # "submission"
            /\ \/ req[r].pc = "as_update"
               \/ req[r].pc = "done"
                    /\ req'[r].op = "admin_start_voting_5days" )
          => UNCHANGED contestvars
    ]_vars

\* the force-close has just closed a contest that has not been in Voting
\* since it was created or last reset: Submission -> Closed
C7_Witness ==
  \E r \in Req :
    /\ Returned(r, "admin_close", "Closed")
    /\ status = "closed"
    /\ voting_ends_at = NULL

\* C8: no request observes the Entry count at maxEntries together with
\* status Submission: the index page never shows both
C8_NeverFullInSubmission ==
  \A r \in Req :
    Returned(r, "index", "Index")
      => ~ (req[r].contest.status = "submission"
              /\ req[r].count = max_entries)

\* C9: a request that arrives while status is Voting and the clock has
\* reached votingEndsAt closes the contest before it evaluates its own
\* operation: a results request in that situation does not return
\* ResultsNotAvailable while the contest still stands in Voting
C9_ClosesBeforeEvaluating ==
  \A r \in Req :
    Returned(r, "results", "ResultsNotAvailable")
      => ~ (status = "voting" /\ voting_ends_at # NULL
              /\ clock >= voting_ends_at)

\* C10: a results request goes on to the ranking only if the status it
\* reads is Closed and returns ResultsNotAvailable if it reads Submission or
\* Voting; none of its steps changes contest, entries or votes
C10_ResultsOnlyWhenClosed ==
  [][\A r \in Req :
       (Steps(r) /\ req'[r].op = "results") =>
         /\ UNCHANGED dbvars
         /\ req[r].pc = "done" =>
              /\ status = "closed" =>
                   req'[r].pc = "r_ranking" /\ req'[r].resp = "none"
              /\ status # "closed" =>
                   req'[r].pc = "done"
                     /\ req'[r].resp = "ResultsNotAvailable"
         /\ req[r].pc = "r_ranking" =>
              req'[r].pc = "done" /\ req'[r].resp = "Ranking"
    ]_vars

\* a results request has just returned the ranking, and there are entries
C10_Witness ==
  \E r \in Req : Returned(r, "results", "Ranking") /\ outfits # {}

\* C11: the ranking returned by results is exactly the sequence of all
\* Entries, each with its vote count (0 without votes), sorted by vote count
\* descending, then createdAt ascending, then Entry id ascending, and top-3
\* is its first three elements
C11_RankingTotalOrder ==
  \A r \in Req :
    Returned(r, "results", "Ranking") =>
      LET s == req[r].ranking
      IN /\ Len(s) = Cardinality(outfits)
         /\ {s[i].id : i \in 1..Len(s)} = {o.id : o \in outfits}
         /\ \A i \in 1..Len(s) :
              s[i].votes =
                Cardinality({x \in votes : x.outfit_id = s[i].id})
         /\ \A i, j \in 1..Len(s) :
              i < j =>
                \/ s[i].votes > s[j].votes
                \/ /\ s[i].votes = s[j].votes
                   /\ s[i].created_at < s[j].created_at
                \/ /\ s[i].votes = s[j].votes
                   /\ s[i].created_at = s[j].created_at
                   /\ s[i].id < s[j].id
         /\ req[r].top3 = [i \in 1..(IF Len(s) < 3 THEN Len(s) ELSE 3) |-> s[i]]

\* C12: an authorized reset, run from any status, ends in a state with
\* status Submission, votingOpenedAt and votingEndsAt unset, no Entries, no
\* Votes and votesPerVoter at the configured default
C12_ResetRestoresInitial ==
  \A r \in Req :
    Returned(r, "admin_reset", "Reset") =>
      /\ status = "submission"
      /\ voting_opened_at = NULL
      /\ voting_ends_at = NULL
      /\ outfits = {}
      /\ votes = {}
      /\ votes_per_user = VOTES_PER_DAY

\* C13, as claimed: a reset followed by one successful submit and a read of
\* the index page shows entry count 1 and status Submission, for every
\* max_entries >= 1
C13_RoundTrip ==
  \A r \in Req :
    Returned(r, "index", "Index") =>
      req[r].count = 1 /\ req[r].contest.status = "submission"

\* C13, amended: a reset followed by one successful submit and a read of the
\* index page shows entry count 1, with status Submission for every
\* max_entries >= 2; with max_entries = 1 the submit has started the voting
\* and the page shows status Voting (Closed once the period has run out)
C13_RoundTripBelowCapacity ==
  \A r \in Req :
    Returned(r, "index", "Index") =>
      /\ req[r].count = 1
      /\ req[r].contest.max_entries >= 2 =>
           req[r].contest.status = "submission"
      /\ req[r].contest.max_entries = 1 =>
           req[r].contest.status \in {"voting", "closed"}

\* the round trip has run on a contest with max_entries = 2 that was closed
\* and had an entry: the page shows one entry in Submission
C13_Witness ==
  \E r \in Req :
    /\ Returned(r, "index", "Index")
    /\ req[r].count = 1
    /\ req[r].contest.status = "submission"
    /\ req[r].contest.max_entries = 2
    /\ outfits = {[id |-> 2, creator_id |-> 1, created_at |-> clock]}

\* C14: a mutating admin operation (force-start, force-close, delete entry,
\* delete all, reset) sent by a session whose admin flag is not set returns
\* Unauthorized and leaves contest, entries and votes unchanged; contest,
\* entries and votes change under an admin operation only if the flag of its
\* session is set; and the flag of a session becomes set only by a request
\* of that session that presents a key equal to ADMIN_KEY
C14_AdminOnly ==
  [][
     /\ \A r \in Req :
          ( /\ Steps(r)
            /\ req'[r].op \in {"admin_start_voting_5days", "admin_close",
                                "admin_delete", "admin_delete_all",
                                "admin_reset"} )
          => /\ ( req[r].pc = "done" /\ ~ is_admin[req'[r].who] )
                  => /\ req'[r].pc = "done"
                     /\ req'[r].resp = "Unauthorized"
             /\ ~ is_admin[req'[r].who] => UNCHANGED dbvars
             /\ req'[r].resp = "Unauthorized" => UNCHANGED dbvars
     /\ \A v \in Voters :
          ( is_admin'[v] /\ ~ is_admin[v] )
          => \E q \in Req : /\ Steps(q)
                             /\ req'[q].op = "index"
                             /\ req'[q].who = v
                             /\ req'[q].key = ADMIN_KEY
    ]_vars

\* a session without the admin flag has just been refused a reset of a
\* contest that has an entry, while another session holds the flag
C14_Witness ==
  \E r \in Req :
    /\ Returned(r, "admin_reset", "Unauthorized")
    /\ ~ is_admin[req[r].who]
    /\ outfits # {}
    /\ \E v \in Voters : is_admin[v]

\* C15: in every reachable state, if status is Voting then votingOpenedAt
\* and votingEndsAt are both set, votingOpenedAt < votingEndsAt and
\* votingEndsAt = votingOpenedAt + votingPeriod
C15_VotingWindowSet ==
  status = "voting" =>
    /\ voting_opened_at # NULL
    /\ voting_ends_at # NULL
    /\ voting_opened_at < voting_ends_at
    /\ voting_ends_at = voting_opened_at + VOTING_PERIOD_DAYS

\* the admin force-start has just opened the voting, on a day after the
\* contest was created
C15_Witness ==
  \E r \in Req :
    /\ Returned(r, "admin_start_voting_5days", "VotingStarted")
    /\ status = "voting"
    /\ voting_opened_at = clock
    /\ clock > 0

\* C16: a Vote is inserted only while the contest status is Voting: at the
\* step that commits a new Vote the status is Voting, for every interleaving
\* of the vote request with force-close, auto-close or reset
C16_VoteOnlyWhileVoting ==
  [][votes' \ votes # {} => status = "voting"]_vars

\* C17: submit checks phase, capacity, existing entry of the voter and the
\* image in this order and reports the first that fails: a submit that
\* finds the status not Submission reports WrongPhase; one that passed and
\* finds the count at max_entries reports CapacityReached; one that passed
\* and finds an entry of its voter reports DuplicateSubmission whatever its
\* image; InvalidImage and UploadFailed are reported only after all of
\* these passed; a step that reports any of these errors leaves contest,
\* entries and votes unchanged
C17_SubmitCheckOrder ==
  [][\A r \in Req :
       (Steps(r) /\ req'[r].op = "submit") =>
         /\ req[r].pc = "done" =>
              (status # "submission" <=> req'[r].resp = "WrongPhase")
         /\ req[r].pc = "s_count" =>
              (Cardinality(outfits) >= max_entries
                 <=> req'[r].resp = "CapacityReached")
         /\ ( /\ req[r].pc = "s_dup"
              /\ \E o \in outfits : o.creator_id = req'[r].who )
            => req'[r].resp = "DuplicateSubmission"
         /\ req'[r].resp = "WrongPhase" => req[r].pc = "done"
         /\ req'[r].resp = "CapacityReached" => req[r].pc = "s_count"
         /\ req'[r].resp = "DuplicateSubmission" =>
              /\ req[r].pc \in {"s_dup", "s_insert"}
              /\ \E o \in outfits : o.creator_id = req'[r].who
         /\ req'[r].resp \in {"InvalidImage", "UploadFailed"} =>
              /\ req[r].pc = "s_dup"
              /\ ~ \E o \in outfits : o.creator_id = req'[r].who
         /\ req'[r].resp \in {"WrongPhase", "CapacityReached",
                               "DuplicateSubmission", "InvalidImage",
                               "UploadFailed"}
            => UNCHANGED <<contestvars, outfits, votes>>
    ]_vars

\* a submit that passed the phase and capacity checks has just been refused
\* at the one-entry-per-voter check, its voter having an entry by then
C17_Witness ==
  \E r \in Req :
    /\ Returned(r, "submit", "DuplicateSubmission")
    /\ req[r].at = "s_dup"
    /\ \E o \in outfits : o.creator_id = req[r].who

\* C18, as claimed: a vote request of a voter who has used votes_per_user
\* votes in the window inserts nothing and fails with DuplicateVote if it is
\* for an entry the voter voted for, with VoteLimitReached if it is for
\* another entry
C18_LimitThenDuplicate ==
  [][\A r \in Req :
       ( /\ Steps(r)
         /\ req[r].op = "vote"
         /\ req[r].pc = "v_count"
         /\ UsedToday(req'[r].who, req[r].txnow) >= votes_per_user )
       => /\ votes' = votes
          /\ req'[r].resp =
               IF \E x \in votes : /\ x.outfit_id = req[r].oid
                                    /\ x.voter_id = req'[r].who
                 THEN "DuplicateVote"
                 ELSE "VoteLimitReached"
    ]_vars

\* C18, amended: a vote request of a voter who has used votes_per_user votes
\* in the window inserts nothing and fails with VoteLimitReached, whether it
\* is for another entry or for an entry the voter voted for
C18_LimitBeforeDuplicate ==
  [][\A r \in Req :
       ( /\ Steps(r)
         /\ req[r].op = "vote"
         /\ req[r].pc = "v_count"
         /\ UsedToday(req'[r].who, req[r].txnow) >= votes_per_user )
       => /\ votes' = votes
          /\ req'[r].pc = "done"
          /\ req'[r].resp = "VoteLimitReached"
    ]_vars

\* with votes_per_user = 2 a voter holds votes of the day for two entries
\* and has just been refused, with VoteLimitReached, a vote for one of them
C18_Witness ==
  \E r \in Req :
    /\ Returned(r, "vote", "VoteLimitReached")
    /\ votes_per_user = 2
    /\ Cardinality({x \in votes : /\ x.voter_id = req[r].who
                                   /\ x.created_at = req[r].txnow}) = 2
    /\ \E x \in votes : /\ x.outfit_id = req[r].oid
                         /\ x.voter_id = req[r].who
                         /\ x.created_at = req[r].txnow

\* C19: the start of the voting is conditional on status Submission: the
\* update of an automatic start or of a force-start that finds the status
\* not Submission (the loser of a race of start attempts) changes nothing;
\* the step that starts the voting is the update of one request and sets
\* the window from its clock; while the status stays Voting the timestamps
\* are not overwritten; a force-start that arrives while the status is
\* Voting or Closed is refused and changes nothing
C19_StartConditional ==
  [][
     /\ \A r \in Req :
          ( /\ Steps(r)
            /\ req[r].pc \in {"s_start", "as_update"}
            /\ status # "submission" )
          => UNCHANGED dbvars
     /\ ( status = "submission" /\ status' = "voting" )
        => /\ \E r \in Req : Steps(r) /\ req[r].pc \in {"s_start", "as_update"}
           /\ voting_opened_at' = clock
           /\ voting_ends_at' = clock + VOTING_PERIOD_DAYS
     /\ ( status = "voting" /\ status' = "voting" )
        => /\ voting_opened_at' = voting_opened_at
           /\ voting_ends_at' = voting_ends_at
     /\ \A r \in Req :
          ( /\ Steps(r)
            /\ req[r].pc = "done"
            /\ req'[r].op = "admin_start_voting_5days"
            /\ status # "submission" )
          => /\ UNCHANGED dbvars
             /\ req'[r].pc = "done"
             /\ req'[r].resp \in {"Unauthorized", "InvalidPhaseTransition"}
    ]_vars

\* a force-start that read status Submission has run its update after the
\* voting had been started on an earlier day: the window is the earlier one
C19_Witness ==
  \E r \in Req :
    /\ Returned(r, "admin_start_voting_5days", "VotingStarted")
    /\ req[r].at = "as_update"
    /\ status = "voting"
    /\ voting_opened_at # NULL
    /\ voting_opened_at < clock

\* C20: every submit and vote request ends in success or in one of the
\* named errors, never in an unhandled storage error, also when an admin
\* deletes the target entry of a vote between its existence check and its
\* insert
C20_NoStorageError ==
  \A r \in Req :
    ( req[r].pc = "done" /\ req[r].op \in {"submit", "vote"} )
    => req[r].resp \in {"Submitted", "Voted", "WrongPhase", "CapacityReached",
                        "DuplicateSubmission", "InvalidImage", "UploadFailed",
                        "VoteLimitReached", "EntryNotFound",
                        "SelfVoteForbidden", "DuplicateVote"}

\* C21: in every reachable state every Vote references an existing Entry;
\* the delete of an authorized admin_delete for an entry that exists removes
\* exactly that Entry and exactly the Votes that reference it, whether or
\* not the release of its image succeeds, and leaves the contest row, the
\* other Entries and the other Votes unchanged
C21_DeleteExactlyOne ==
  /\ [](\A x \in votes : \E o \in outfits : o.id = x.outfit_id)
  /\ [][\A r \in Req :
          ( /\ Steps(r)
            /\ req[r].op = "admin_delete"
            /\ req[r].pc = "ad_delete"
            /\ \E o \in outfits : o.id = req[r].oid )
          => /\ outfits' = {o \in outfits : o.id # req[r].oid}
             /\ votes' = {x \in votes : x.outfit_id # req[r].oid}
             /\ UNCHANGED contestvars
             /\ req'[r].resp = "Deleted"
     ]_vars

\* an admin_delete has just removed its entry, and another entry and a vote
\* for that other entry are still there
C21_Witness ==
  \E r \in Req :
    /\ Returned(r, "admin_delete", "Deleted")
    /\ req[r].at = "ad_delete"
    /\ ~ \E o \in outfits : o.id = req[r].oid
    /\ \E o \in outfits : \E x \in votes : x.outfit_id = o.id

\* C22: if status is Voting and the clock has reached votingEndsAt then,
\* requests being handled as they keep arriving, the status eventually
\* leaves Voting, whichever kind of phase-sensitive request arrives; and
\* once Closed the status stays Closed until a reset returns it to
\* Submission
C22_EventuallyLeavesVoting ==
  /\ ( status = "voting" /\ voting_ends_at # NULL /\ clock >= voting_ends_at )
       ~> ( status # "voting" )
  /\ [][status = "closed" => status' \in {"closed", "submission"}]_vars

=============================================================================
